---- MODULE Spec2Model ----
(***************************************************************************)
(* Model of the rest-api-specs-scripts CI helpers:                         *)
(*   - the breaking-change run   (src/unnamed/part_000, runScript/runOad)  *)
(*   - the dual-run linter       (src/unnamed/part_001, runScript/...)     *)
(*   - the two output repairers  (runOad, getLinterResult) as functions    *)
(*     of the raw chunk, and the comparator used to order findings.        *)
(*                                                                         *)
(* A raw chunk is a sequence of lexemes.  "{" "}" "[" "]" "," are the JSON *)
(* punctuation, SP TB NL the whitespace characters, a member lexeme such   *)
(* as "E1" stands for the members  "type":"Error","id":"1"  of one finding,*)
(* "7" is a JSON number, "x" and "." are diagnostic text that is no JSON,  *)
(* and "P" is the text  Processing batch task -  of a progress line.       *)
(***************************************************************************)
EXTENDS Integers, Sequences, FiniteSets, TLC

\* ------------------------------------------------------------------ bounds
MaxFiles == 2     \* changed files of one run
MaxObjs == 3      \* JSON objects in one enumerated raw chunk
MaxGap == 2       \* whitespace characters between two objects of a chunk
MaxText == 3      \* lexemes of an enumerated chunk without "{"
MaxDiffs == 3     \* findings of one file handed to the sorter

\* ----------------------------------------------------------------- lexemes
SP == " "
TB == "\t"
NL == "\n"
Whitespace == {SP, TB, NL}
Members == {"E1", "E2", "W1", "I1", "R1"}
Scalars == {"7"}

\* The fields of the finding a member lexeme stands for (Diff, part_000:34-39).
MemberType(m) ==
  CASE m \in {"E1", "E2"} -> "Error"
    [] m = "W1" -> "Warning"
    [] m = "I1" -> "Info"
    [] OTHER -> "Result"

MemberId(m) ==
  CASE m \in {"E1", "W1", "I1", "R1"} -> 1
    [] OTHER -> 2

\* ------------------------------------------------------- string primitives
RECURSIVE IndexFrom(_, _, _)
\* String.prototype.indexOf: the first position >= i holding c, 0 if none
\* (positions are 1-based here, so 0 plays the part of JavaScript's -1).
IndexFrom(s, c, i) ==
  IF i > Len(s) THEN 0
  ELSE IF s[i] = c THEN i
  ELSE IndexFrom(s, c, i + 1)

indexOf(s, c) == IndexFrom(s, c, 1)

RECURSIVE SkipWs(_, _)
\* The first position >= i that holds no whitespace, Len(s)+1 if none.
SkipWs(s, i) ==
  IF i > Len(s) THEN Len(s) + 1
  ELSE IF s[i] \in Whitespace THEN SkipWs(s, i + 1)
  ELSE i

RECURSIVE SkipWsBack(_, _)
SkipWsBack(s, i) ==
  IF i < 1 THEN 0
  ELSE IF s[i] \in Whitespace THEN SkipWsBack(s, i - 1)
  ELSE i

\* String.prototype.trim
trim(s) ==
  LET a == SkipWs(s, 1)
      b == SkipWsBack(s, Len(s))
  IN IF a > b THEN <<>> ELSE SubSeq(s, a, b)

\* String.prototype.substring(from), from 1-based
substring(s, from) == SubSeq(s, from, Len(s))

\* ------------------------------------------------------------- JSON.parse
\* A parse yields [ok, next, out, elems]: whether a value was read at the
\* position, the position after it, the value in canonical form (its lexemes
\* without whitespace) and, for an array, its elements in canonical form.
ParseFail == [ok |-> FALSE, next |-> 0, out |-> <<>>, elems |-> <<>>]

RECURSIVE ParseValue(_, _), ParseElems(_, _, _, _)
ParseValue(s, i) ==
  IF i > Len(s) THEN ParseFail
  ELSE IF s[i] \in Scalars
    THEN [ok |-> TRUE, next |-> i + 1, out |-> <<s[i]>>, elems |-> <<>>]
  ELSE IF s[i] = "{"
    THEN LET j == SkipWs(s, i + 1)
         IN IF j > Len(s) THEN ParseFail
            ELSE IF s[j] = "}"
              THEN [ok |-> TRUE, next |-> j + 1, out |-> <<"{", "}">>, elems |-> <<>>]
            ELSE IF s[j] \in Members
              THEN LET k == SkipWs(s, j + 1)
                   IN IF k <= Len(s) /\ s[k] = "}"
                        THEN [ok |-> TRUE, next |-> k + 1,
                              out |-> <<"{", s[j], "}">>, elems |-> <<>>]
                        ELSE ParseFail
            ELSE ParseFail
  ELSE IF s[i] = "["
    THEN LET j == SkipWs(s, i + 1)
         IN IF j > Len(s) THEN ParseFail
            ELSE IF s[j] = "]"
              THEN [ok |-> TRUE, next |-> j + 1, out |-> <<"[", "]">>, elems |-> <<>>]
            ELSE ParseElems(s, j, <<"[">>, <<>>)
  ELSE ParseFail

ParseElems(s, j, acc, elems) ==
  LET v == ParseValue(s, j)
      k == IF v.ok THEN SkipWs(s, v.next) ELSE 0
  IN IF ~v.ok \/ k > Len(s) THEN ParseFail
     ELSE IF s[k] = ","
       THEN ParseElems(s, SkipWs(s, k + 1), acc \o v.out \o <<",">>, Append(elems, v.out))
     ELSE IF s[k] = "]"
       THEN [ok |-> TRUE, next |-> k + 1, out |-> acc \o v.out \o <<"]">>,
             elems |-> Append(elems, v.out)]
     ELSE ParseFail

\* JSON.parse(text): one value, whitespace around it, nothing else.
JSONparse(s) ==
  LET v == ParseValue(s, SkipWs(s, 1))
  IN IF v.ok /\ SkipWs(s, v.next) = Len(s) + 1 THEN v ELSE ParseFail

\* --------------------------------------------------- the diff-tool repairer
RECURSIVE ReplaceBraceGap(_, _)
\* result.replace(/}\s+{/gi, "},{"): every "}" followed by one or more
\* whitespace characters and a "{" becomes "},{" (the whitespace is dropped);
\* scanning resumes after the "{" of a match.
ReplaceBraceGap(s, i) ==
  IF i > Len(s) THEN <<>>
  ELSE LET j == SkipWs(s, i + 1)
       IN IF s[i] = "}" /\ j > i + 1 /\ j <= Len(s) /\ s[j] = "{"
            THEN <<"}", ",", "{">> \o ReplaceBraceGap(s, j + 1)
            ELSE <<s[i]>> \o ReplaceBraceGap(s, i + 1)

Undefined == [kind |-> "undefined", value |-> <<>>]
Thrown == [kind |-> "throw", value |-> <<>>]
Exited == [kind |-> "exit", value |-> <<>>]
Returned(v) == [kind |-> "value", value |-> v]

\* runOad after oad.compare has answered with the chunk `result`:
\* undefined for a falsy chunk, otherwise JSON.parse of the wrapped chunk,
\* whose SyntaxError leaves runOad as an exception.
runOad(result) ==
  IF result = <<>> THEN Undefined
  ELSE LET fixed == <<"[">> \o ReplaceBraceGap(result, 1) \o <<"]">>
           parsed == JSONparse(fixed)
       IN IF parsed.ok THEN Returned(parsed.elems) ELSE Thrown

\* ------------------------------------------------------ the linter repairer
RECURSIVE StripNoise(_, _)
\* resultString.replace(/Processing batch task - {.*} \.\n/g, ""): a progress
\* line is "P" "{" ... "}" SP "." NL with no NL inside; "." in the pattern does
\* not match a newline, so the NL that ends a match is the first one after "{".
StripNoise(s, i) ==
  IF i > Len(s) THEN <<>>
  ELSE LET n == IndexFrom(s, NL, i + 2)
       IN IF /\ s[i] = "P"
             /\ i + 1 <= Len(s) /\ s[i + 1] = "{"
             /\ n # 0 /\ n - 3 >= i + 2
             /\ s[n - 3] = "}" /\ s[n - 2] = SP /\ s[n - 1] = "."
            THEN StripNoise(s, n + 1)
            ELSE <<s[i]>> \o StripNoise(s, i + 1)

RECURSIVE ReplaceBraceNewline(_, _)
\* replace(/\}\n\{/g, "},\n{"): a comma goes in only where exactly one
\* newline stands between "}" and "{".
ReplaceBraceNewline(s, i) ==
  IF i > Len(s) THEN <<>>
  ELSE IF s[i] = "}" /\ i + 2 <= Len(s) /\ s[i + 1] = NL /\ s[i + 2] = "{"
    THEN <<"}", ",", NL, "{">> \o ReplaceBraceNewline(s, i + 3)
  ELSE <<s[i]>> \o ReplaceBraceNewline(s, i + 1)

\* The text handed to JSON.parse by getLinterResult (part_001:71-72).
\* substring(-1) is substring(0) in JavaScript: when the only "{" stood in
\* progress lines, the whole remainder is kept.
LinterRepaired(resultString) ==
  LET stripped == StripNoise(resultString, 1)
      at == indexOf(stripped, "{")
      from == IF at = 0 THEN 1 ELSE at
  IN <<"[">> \o ReplaceBraceNewline(trim(substring(stripped, from)), 1) \o <<"]">>

\* getLinterResult from the tool's output on (part_001:69-87): [] for a chunk
\* without "{", the parsed array otherwise, process.exit(1) on a SyntaxError.
LinterParse(resultString) ==
  IF indexOf(resultString, "{") # 0
    THEN LET parsed == JSONparse(LinterRepaired(resultString))
         IN IF parsed.ok THEN Returned(parsed.elems) ELSE Exited
    ELSE Returned(<<>>)

\* ------------------------------------------------------ findings and order
\* A finding as the scripts read it: the Diff fields type, id and message.
\* An array element that is no object with members has none of the fields.
AsDiff(elem) ==
  IF Len(elem) = 3 /\ elem[1] = "{"
    THEN [type |-> MemberType(elem[2]), id |-> MemberId(elem[2]), message |-> elem[2]]
    ELSE [type |-> "undefined", id |-> 0, message |-> "?"]

AsDiffs(elems) == [k \in 1..Len(elems) |-> AsDiff(elems[k])]

\* a.id.localeCompare(b.id); ids are numbered in collation order.
localeCompare(x, y) == IF x < y THEN -1 ELSE IF x > y THEN 1 ELSE 0

\* The comparator handed to diffs.sort.
compare(a, b) ==
  IF a.type = b.type THEN localeCompare(a.id, b.id)
  ELSE IF a.type = "Error" THEN 1
  ELSE IF b.type = "Error" THEN -1
  ELSE IF a.type = "Warning" THEN 1
  ELSE -1

Sign(n) == IF n < 0 THEN -1 ELSE IF n > 0 THEN 1 ELSE 0

\* ECMAScript's "consistent comparison function" for the elements of d.
ConsistentOn(d) ==
  /\ \A x \in DOMAIN d : \A y \in DOMAIN d :
       Sign(compare(d[x], d[y])) = -Sign(compare(d[y], d[x]))
  /\ \A x \in DOMAIN d : \A y \in DOMAIN d : \A z \in DOMAIN d :
       (compare(d[x], d[y]) <= 0 /\ compare(d[y], d[z]) <= 0)
         => compare(d[x], d[z]) <= 0

RECURSIVE InsertStable(_, _)
InsertStable(s, x) ==
  IF s = <<>> THEN <<x>>
  ELSE IF compare(s[Len(s)], x) > 0
    THEN Append(InsertStable(SubSeq(s, 1, Len(s) - 1), x), s[Len(s)])
  ELSE Append(s, x)

RECURSIVE StableSort(_)
StableSort(d) ==
  IF d = <<>> THEN <<>>
  ELSE InsertStable(StableSort(SubSeq(d, 1, Len(d) - 1)), d[Len(d)])

Permutation(d, p) == [k \in DOMAIN d |-> d[p[k]]]

Bijections(n) == {p \in [1..n -> 1..n] : \A a \in 1..n : \E b \in 1..n : p[b] = a}

\* Array.prototype.sort(compare): the stable sorted order when the comparator
\* is consistent for the elements; otherwise the order is implementation-
\* defined, and any rearrangement of the elements may come out.
SortOutcomes(d) ==
  IF ConsistentOn(d) THEN {StableSort(d)}
  ELSE {Permutation(d, p) : p \in Bijections(Len(d))}

RECURSIVE SortedNames(_)
\* names.sort() of a set of file names; files are numbered in lexicographic order.
SortedNames(S) ==
  IF S = {} THEN <<>>
  ELSE LET m == CHOOSE x \in S : \A y \in S : x <= y
       IN <<m>> \o SortedNames(S \ {m})

Range(q) == {q[k] : k \in DOMAIN q}
includes(q, x) == x \in Range(q)

\* ======================================================== program state
VARIABLES
  \* the breaking-change run (part_000 runScript)
  pc,                      \* where runScript stands
  swaggersToProcess,       \* the changed files, in the order git reports them
  prDefined,               \* pr !== undefined
  isRunningInTravisCI,
  newSwaggers,
  i,                       \* index of the for-of loop in progress
  resolvedMapForNewSpecs,  \* the keys of the map
  pendingReads,            \* files whose fs.readJSON callback has not run yet
  exitCode,                \* process.exitCode
  errors, warnings,
  diffFiles,
  newFiles,
  output,
  autorestCalls,           \* history: files handed to processViaAutoRest
  oadCalls,                \* history: files handed to runOad
  readFlagged,             \* history: files whose readJSON callback set exitCode
  \* the dual-run linter (part_001 runScript)
  lpc,
  configsToProcess,
  li,
  branch,                  \* what the working tree holds: "pr" or "target"
  checkouts,               \* checkouts of the target branch so far
  files,                   \* finalResult.files, by <<file, beforeOrAfter>>
  logFile,                 \* content of the log file: "none", "empty", "report"
  running,                 \* the runTools call whose linter is running
  ran,                     \* history: the finished runTools calls
  \* the repairers and the sorter on their own
  chunk, oadResult, linterResult,
  diffs, sorted

runVars == <<pc, swaggersToProcess, prDefined, isRunningInTravisCI, newSwaggers, i,
             resolvedMapForNewSpecs, pendingReads, exitCode, errors, warnings,
             diffFiles, newFiles, output, autorestCalls, oadCalls, readFlagged>>
lintVars == <<lpc, configsToProcess, li, branch, checkouts, files, logFile, running, ran>>
repairVars == <<chunk, oadResult, linterResult>>
sortVars == <<diffs, sorted>>
vars == <<runVars, lintVars, repairVars, sortVars>>

Files == 1..MaxFiles

\* Lists of distinct changed files.
FileLists ==
  {q \in UNION {[1..n -> Files] : n \in 0..MaxFiles} :
     \A a \in DOMAIN q : \A b \in DOMAIN q : a # b => q[a] # q[b]}

Pending == [kind |-> "pending", value |-> <<>>]
NoOutput == [produced |-> FALSE, title |-> 0,
             summary |-> [breaking |-> FALSE, errors |-> 0, warnings |-> 0],
             newFiles |-> <<>>, diffFileNames |-> <<>>]
EmptyMap == [f \in {} |-> <<>>]

RunIdle ==
  /\ pc = "idle" /\ swaggersToProcess = <<>> /\ prDefined = FALSE
  /\ isRunningInTravisCI = FALSE /\ newSwaggers = <<>> /\ i = 1
  /\ resolvedMapForNewSpecs = {} /\ pendingReads = {} /\ exitCode = 0
  /\ errors = 0 /\ warnings = 0 /\ diffFiles = EmptyMap /\ newFiles = <<>>
  /\ output = NoOutput /\ autorestCalls = {} /\ oadCalls = {} /\ readFlagged = {}

LintIdle ==
  /\ lpc = "idle" /\ configsToProcess = <<>> /\ li = 1 /\ branch = "pr"
  /\ checkouts = 0 /\ files = EmptyMap /\ logFile = "none"
  /\ running = [file |-> 0, phase |-> "none", branch |-> "none"] /\ ran = {}

RepairIdle == chunk = <<>> /\ oadResult = Pending /\ linterResult = Pending

SortIdle == diffs = <<>> /\ sorted = [done |-> FALSE, value |-> <<>>]

\* ================================================ the breaking-change run
\* What oad.compare may answer for one file: nothing, findings one per line
\* or separated by blanks, blank output, or text that is no JSON.
OadChunks ==
  { <<>>,
    <<SP>>,
    <<"x">>,
    <<"{", "E1", "}">>,
    <<"{", "W1", "}", NL, "{", "E2", "}", SP, TB, "{", "W1", "}">>,
    <<"{", "I1", "}", SP, "{", "R1", "}">>,
    <<"{", "W1", "}", NL, "{", "I1", "}">> }

OadAnswers ==
  {[rejects |-> TRUE, result |-> <<>>]} \cup
  {[rejects |-> FALSE, result |-> c] : c \in OadChunks}

\* What the fs.readJSON callback finds: an unreadable file, a swagger 2.0
\* document, another JSON document, or the document null.
ReadOutcomes == {"err", "swagger2", "other", "null"}

RunInit ==
  /\ pc = "findNew"
  /\ swaggersToProcess \in FileLists
  /\ prDefined \in BOOLEAN
  /\ isRunningInTravisCI \in BOOLEAN
  /\ newSwaggers = <<>> /\ i = 1
  /\ resolvedMapForNewSpecs = {} /\ pendingReads = {} /\ exitCode = 0
  /\ errors = 0 /\ warnings = 0 /\ diffFiles = EmptyMap /\ newFiles = <<>>
  /\ output = NoOutput /\ autorestCalls = {} /\ oadCalls = {} /\ readFlagged = {}

\* newSwaggers: the changed files that do not exist on the target branch,
\* looked up only when there are changed files and pr is defined.
FindNewSwaggers ==
  /\ pc = "findNew"
  /\ IF Len(swaggersToProcess) > 0 /\ prDefined
       THEN \E absent \in SUBSET Range(swaggersToProcess) :
              newSwaggers' = SelectSeq(swaggersToProcess, LAMBDA f : f \in absent)
       ELSE newSwaggers' = <<>>
  /\ pc' = "autorest" /\ i' = 1
  /\ UNCHANGED <<swaggersToProcess, prDefined, isRunningInTravisCI,
                 resolvedMapForNewSpecs, pendingReads, exitCode, errors, warnings,
                 diffFiles, newFiles, output, autorestCalls, oadCalls, readFlagged>>
  /\ UNCHANGED <<lintVars, repairVars, sortVars>>

\* SkipsAutoRest with the test left out.
SkipsNoFile(swagger) == FALSE

\* The test that keeps a file out of AutoRest processing.
SkipsAutoRest(swagger) == includes(newSwaggers, swagger)

\* One turn of the "Processing via AutoRest" loop.
AutoRestStep ==
  /\ pc = "autorest" /\ i <= Len(swaggersToProcess)
  /\ LET swagger == swaggersToProcess[i]
     IN IF SkipsAutoRest(swagger)
          THEN UNCHANGED <<autorestCalls, resolvedMapForNewSpecs, pendingReads>>
          ELSE /\ autorestCalls' = autorestCalls \cup {swagger}
               /\ \E isSuccessed \in BOOLEAN :
                    IF isSuccessed
                      THEN /\ resolvedMapForNewSpecs' = resolvedMapForNewSpecs \cup {swagger}
                           /\ UNCHANGED pendingReads
                      ELSE /\ pendingReads' = pendingReads \cup {swagger}
                           /\ UNCHANGED resolvedMapForNewSpecs
  /\ i' = i + 1
  /\ UNCHANGED <<pc, swaggersToProcess, prDefined, isRunningInTravisCI, newSwaggers,
                 exitCode, errors, warnings, diffFiles, newFiles, output, oadCalls,
                 readFlagged>>
  /\ UNCHANGED <<lintVars, repairVars, sortVars>>

AutoRestLoopEnd ==
  /\ pc = "autorest" /\ i > Len(swaggersToProcess)
  /\ pc' = "diff" /\ i' = 1
  /\ UNCHANGED <<swaggersToProcess, prDefined, isRunningInTravisCI, newSwaggers,
                 resolvedMapForNewSpecs, pendingReads, exitCode, errors, warnings,
                 diffFiles, newFiles, output, autorestCalls, oadCalls, readFlagged>>
  /\ UNCHANGED <<lintVars, repairVars, sortVars>>

\* The exit code the fs.readJSON callback leaves.
ReadExitCode(outcome, code) ==
  CASE outcome = "err" -> 1
    [] outcome = "swagger2" -> 2
    [] outcome = "null" -> 3
    [] OTHER -> code

\* The callback of fs.readJSON for a file AutoRest failed on.  fs.readJSON is
\* given a callback, so the "await" in front of it waits for nothing: the
\* callback runs at some later turn of the event loop, before the process ends.
ReadJSONCallback ==
  /\ \E swagger \in pendingReads : \E outcome \in ReadOutcomes :
       /\ exitCode' = ReadExitCode(outcome, exitCode)
       /\ pendingReads' = pendingReads \ {swagger}
       /\ readFlagged' = IF outcome = "other" THEN readFlagged
                         ELSE readFlagged \cup {swagger}
  /\ UNCHANGED <<pc, swaggersToProcess, prDefined, isRunningInTravisCI, newSwaggers, i,
                 resolvedMapForNewSpecs, errors, warnings, diffFiles, newFiles, output,
                 autorestCalls, oadCalls>>
  /\ UNCHANGED <<lintVars, repairVars, sortVars>>

\* TallyOne with every finding that is no Error counted as a warning.
TallyOneCountsRest(acc, diff) ==
  IF diff.type = "Error"
    THEN [errors |-> acc.errors + 1, warnings |-> acc.warnings,
          exitCode |-> IF acc.errors = 0 THEN 1 ELSE acc.exitCode]
  ELSE [acc EXCEPT !.warnings = @ + 1]

\* TallyOne without the assignment to process.exitCode.
TallyOneKeepsExitCode(acc, diff) ==
  IF diff.type = "Error" THEN [acc EXCEPT !.errors = @ + 1]
  ELSE IF diff.type = "Warning" THEN [acc EXCEPT !.warnings = @ + 1]
  ELSE acc

\* The body of "for (const diff of diffs)" for one finding.
TallyOne(acc, diff) ==
  IF diff.type = "Error"
    THEN [errors |-> acc.errors + 1, warnings |-> acc.warnings,
          exitCode |-> IF acc.errors = 0 THEN 1 ELSE acc.exitCode]
  ELSE IF diff.type = "Warning"
    THEN [acc EXCEPT !.warnings = @ + 1]
  ELSE acc

RECURSIVE Tally(_, _)
Tally(acc, ds) ==
  IF ds = <<>> THEN acc ELSE Tally(TallyOne(acc, Head(ds)), Tail(ds))

\* The test that sets a file aside as newly added.
IsNewFile(swagger) == includes(newSwaggers, swagger)

\* One turn of the loop that diffs the files.
DiffStep ==
  /\ pc = "diff" /\ i <= Len(swaggersToProcess)
  /\ LET swagger == swaggersToProcess[i]
     IN IF IsNewFile(swagger)
          THEN /\ newFiles' = Append(newFiles, swagger)
               /\ i' = i + 1
               /\ UNCHANGED <<pc, exitCode, errors, warnings, diffFiles, oadCalls>>
          ELSE IF swagger \in resolvedMapForNewSpecs
            THEN /\ oadCalls' = oadCalls \cup {swagger}
                 /\ UNCHANGED newFiles
                 /\ \E answer \in OadAnswers :
                      LET r == IF answer.rejects THEN Thrown ELSE runOad(answer.result)
                          ds == AsDiffs(r.value)
                          t == Tally([errors |-> errors, warnings |-> warnings,
                                      exitCode |-> exitCode], ds)
                      IN IF r.kind = "throw"
                           THEN /\ pc' = "threw"
                                /\ UNCHANGED <<i, exitCode, errors, warnings, diffFiles>>
                         ELSE IF r.kind = "undefined"
                           THEN /\ i' = i + 1
                                /\ UNCHANGED <<pc, exitCode, errors, warnings, diffFiles>>
                         ELSE /\ diffFiles' = (swagger :> ds) @@ diffFiles
                              /\ errors' = t.errors
                              /\ warnings' = t.warnings
                              /\ exitCode' = t.exitCode
                              /\ i' = i + 1
                              /\ UNCHANGED pc
            ELSE /\ i' = i + 1
                 /\ UNCHANGED <<pc, exitCode, errors, warnings, diffFiles, newFiles,
                                oadCalls>>
  /\ UNCHANGED <<swaggersToProcess, prDefined, isRunningInTravisCI, newSwaggers,
                 resolvedMapForNewSpecs, pendingReads, output, autorestCalls,
                 readFlagged>>
  /\ UNCHANGED <<lintVars, repairVars, sortVars>>

DiffLoopEnd ==
  /\ pc = "diff" /\ i > Len(swaggersToProcess)
  /\ pc' = "report"
  /\ UNCHANGED <<swaggersToProcess, prDefined, isRunningInTravisCI, newSwaggers, i,
                 resolvedMapForNewSpecs, pendingReads, exitCode, errors, warnings,
                 diffFiles, newFiles, output, autorestCalls, oadCalls, readFlagged>>
  /\ UNCHANGED <<lintVars, repairVars, sortVars>>

\* The report, built and printed only when running in Travis CI; newFiles and
\* every file's findings are sorted in place on the way.
BuildReport ==
  /\ pc = "report"
  /\ IF isRunningInTravisCI
       THEN /\ newFiles' = SortedNames(Range(newFiles))
            /\ \E srt \in [DOMAIN diffFiles -> UNION {SortOutcomes(diffFiles[f]) : f \in DOMAIN diffFiles}] :
                 /\ \A f \in DOMAIN diffFiles : srt[f] \in SortOutcomes(diffFiles[f])
                 /\ diffFiles' = srt
            /\ output' = [produced |-> TRUE,
                          title |-> errors,
                          summary |-> [breaking |-> errors > 0, errors |-> errors,
                                       warnings |-> warnings],
                          newFiles |-> SortedNames(Range(newFiles)),
                          diffFileNames |-> SortedNames(DOMAIN diffFiles)]
       ELSE UNCHANGED <<newFiles, diffFiles, output>>
  /\ pc' = "done"
  /\ UNCHANGED <<swaggersToProcess, prDefined, isRunningInTravisCI, newSwaggers, i,
                 resolvedMapForNewSpecs, pendingReads, exitCode, errors, warnings,
                 autorestCalls, oadCalls, readFlagged>>
  /\ UNCHANGED <<lintVars, repairVars, sortVars>>

\* The process ends, with process.exitCode as its status, once runScript has
\* returned and no callback is outstanding.
ProcessExit ==
  /\ pc = "done" /\ pendingReads = {}
  /\ pc' = "exited"
  /\ UNCHANGED <<swaggersToProcess, prDefined, isRunningInTravisCI, newSwaggers, i,
                 resolvedMapForNewSpecs, pendingReads, exitCode, errors, warnings,
                 diffFiles, newFiles, output, autorestCalls, oadCalls, readFlagged>>
  /\ UNCHANGED <<lintVars, repairVars, sortVars>>

Init == RunInit /\ LintIdle /\ RepairIdle /\ SortIdle

Next ==
  \/ FindNewSwaggers
  \/ AutoRestStep
  \/ AutoRestLoopEnd
  \/ ReadJSONCallback
  \/ DiffStep
  \/ DiffLoopEnd
  \/ BuildReport
  \/ ProcessExit

Spec == Init /\ [][Next]_vars

\* ============================================ claims on the breaking-change run
CountType(ds, t) == Cardinality({k \in DOMAIN ds : ds[k].type = t})

RECURSIVE TotalIn(_, _)
TotalIn(S, t) ==
  IF S = {} THEN 0
  ELSE LET f == CHOOSE g \in S : TRUE
       IN CountType(diffFiles[f], t) + TotalIn(S \ {f}, t)

TotalOfType(t) == TotalIn(DOMAIN diffFiles, t)
LoopsOver == pc \in {"report", "done", "exited"}

\* C1: once every changed file has been processed, errors is the number of
\* findings of type Error and warnings the number of findings of type Warning
\* over all files of the diff report, findings of other types counting for
\* neither; a run over no files ends with both at 0 and reports no breaking
\* change.
C1_CountsAreTotals ==
  LoopsOver =>
    /\ errors = TotalOfType("Error")
    /\ warnings = TotalOfType("Warning")
    /\ swaggersToProcess = <<>> =>
         /\ errors = 0 /\ warnings = 0
         /\ output.title = 0 /\ ~output.summary.breaking

C1_Witness ==
  /\ pc = "exited"
  /\ Cardinality(DOMAIN diffFiles) >= 2
  /\ errors >= 1 /\ warnings >= 3
  /\ \E f \in DOMAIN diffFiles : \E k \in DOMAIN diffFiles[f] :
       diffFiles[f][k].type \notin {"Error", "Warning"}

\* C2 as claimed: the exit status is 0 exactly when errors is 0.
C2_ExitZeroIffNoErrors ==
  pc = "exited" => (exitCode = 0 <=> errors = 0)

\* C2 as amended: in a run that completes, errors > 0 gives a non-zero exit
\* status, and the status is 0 exactly when errors is 0 and no fs.readJSON
\* check after a failed AutoRest run set an exit code; warnings never do.
C2_ExitStatus ==
  pc = "exited" =>
    /\ errors > 0 => exitCode # 0
    /\ exitCode = 0 <=> (errors = 0 /\ readFlagged = {})

C2_Witness ==
  /\ pc = "exited" /\ errors = 0 /\ warnings > 0
  /\ readFlagged # {} /\ exitCode # 0

\* C4: a file of the new-file set is never a key of the diff report, is never
\* handed to AutoRest or to the diff tool, and the new-file set holds only
\* files found absent on the target branch.
C4_NewFilesExcluded ==
  /\ Range(newFiles) \subseteq Range(newSwaggers)
  /\ \A f \in Range(newSwaggers) :
       /\ f \notin DOMAIN diffFiles
       /\ f \notin autorestCalls
       /\ f \notin oadCalls
  /\ LoopsOver => Range(newFiles) = Range(newSwaggers)

C4_Witness ==
  /\ pc = "exited"
  /\ newFiles # <<>>
  /\ DOMAIN diffFiles # {}
  /\ errors > 0

\* ================================================ the repairers on their own
\* Whitespace runs of 1..MaxGap characters.
Gaps == UNION {[1..n -> Whitespace] : n \in 1..MaxGap}

\* The member of the k-th object of an enumerated chunk: neighbours differ,
\* so the order of the records can be told.
ObjMember(k) == <<"E1", "W1", "I1", "R1", "E2">>[((k - 1) % 5) + 1]

RECURSIVE Joined(_, _, _)
\* Objects k..n, each after the first preceded by its gap.
Joined(k, n, gaps) ==
  IF k > n THEN <<>>
  ELSE (IF k = 1 THEN <<>> ELSE gaps[k - 1])
       \o <<"{", ObjMember(k), "}">> \o Joined(k + 1, n, gaps)

\* N >= 1 well-formed objects separated by whitespace.
ObjectChunks ==
  UNION {{Joined(1, n, gaps) : gaps \in [1..(n - 1) -> Gaps]} : n \in 1..MaxObjs}

RECURSIVE ArrayBody(_, _, _)
ArrayBody(k, n, sep) ==
  IF k > n THEN <<>>
  ELSE (IF k = 1 THEN <<>> ELSE sep) \o <<"{", ObjMember(k), "}">> \o ArrayBody(k + 1, n, sep)

\* Well-formed JSON arrays of 1..MaxObjs objects, compact or one object a line.
ArrayChunks ==
  UNION {{<<"[">> \o ArrayBody(1, n, <<",">>) \o <<"]">>,
          <<"[", NL>> \o ArrayBody(1, n, <<",", NL>>) \o <<NL, "]">>} : n \in 1..MaxObjs}

\* Chunks without "{": diagnostic text, blanks, numbers.
TextChunks == UNION {[1..n -> {"x", SP, NL, "7", "]"}] : n \in 0..MaxText}

ProgressLine == <<"P", "{", "x", "}", SP, ".", NL>>

\* Linter output with progress lines among the findings.
NoisyChunks ==
  { ProgressLine,
    ProgressLine \o <<"x">>,
    ProgressLine \o <<"{", "E1", "}", NL>>,
    <<"x", NL>> \o ProgressLine \o <<"{", "E1", "}", NL, "{", "W1", "}", NL>>,
    <<"{", "E1", "}", NL>> \o ProgressLine \o <<"{", "W1", "}", NL>> }

Chunks == ObjectChunks \cup ArrayChunks \cup TextChunks \cup NoisyChunks

RepairInit == chunk \in Chunks /\ oadResult = Pending /\ linterResult = Pending

\* oad.compare answered with the chunk; runOad repairs and parses it.
OadRepair ==
  /\ oadResult = Pending
  /\ oadResult' = runOad(chunk)
  /\ UNCHANGED <<chunk, linterResult, runVars, lintVars, sortVars>>

\* The linter wrote the chunk; getLinterResult repairs and parses it.
LinterRepair ==
  /\ linterResult = Pending
  /\ linterResult' = LinterParse(chunk)
  /\ UNCHANGED <<chunk, oadResult, runVars, lintVars, sortVars>>

InitRepair == RunIdle /\ LintIdle /\ RepairInit /\ SortIdle
NextRepair == OadRepair \/ LinterRepair
SpecRepair == InitRepair /\ [][NextRepair]_vars

\* The objects of a chunk of objects, in canonical form and in order.
ObjectsOf(c) ==
  LET ms == SelectSeq(c, LAMBDA t : t \in Members)
  IN [k \in 1..Len(ms) |-> <<"{", ms[k], "}">>]

\* C5: for a chunk of N >= 1 well-formed objects separated by whitespace, each
\* repairer returns exactly the N records, in the order of the chunk.
C5_SplitsObjects ==
  chunk \in ObjectChunks =>
    /\ oadResult # Pending => oadResult = Returned(ObjectsOf(chunk))
    /\ linterResult # Pending => linterResult = Returned(ObjectsOf(chunk))

\* C6: for a chunk that is a well-formed JSON array of objects, each repairer
\* returns what parsing the chunk itself gives.
C6_ArrayUnchanged ==
  chunk \in ArrayChunks =>
    /\ oadResult # Pending => oadResult = Returned(JSONparse(chunk).elems)
    /\ linterResult # Pending => linterResult = Returned(JSONparse(chunk).elems)

\* C7: for a chunk without "{", each repairer ends without an error and with
\* no findings (runOad's undefined for the empty chunk counted as none).
C7_NoBraceNoFindings ==
  indexOf(chunk, "{") = 0 =>
    /\ oadResult # Pending =>
         oadResult.kind \in {"value", "undefined"} /\ oadResult.value = <<>>
    /\ linterResult # Pending => linterResult = Returned(<<>>)

\* ==================================================== the sorter on its own
Findings == [type : {"Info", "Warning", "Error", "Result"}, id : {1, 2},
             message : {"m1", "m2"}]

Unsorted == [done |-> FALSE, value |-> <<>>]

SortInit == diffs \in UNION {[1..n -> Findings] : n \in 0..MaxDiffs} /\ sorted = Unsorted

\* diffs.sort(compare) on the findings of one file.
SortDiffs ==
  /\ ~sorted.done
  /\ \E out \in SortOutcomes(diffs) : sorted' = [done |-> TRUE, value |-> out]
  /\ UNCHANGED <<diffs, runVars, lintVars, repairVars>>

InitSort == RunIdle /\ LintIdle /\ RepairIdle /\ SortInit
NextSort == SortDiffs
SpecSort == InitSort /\ [][NextSort]_vars

\* Severity rank of the claimed order; a type that is none of the three takes
\* the neutral place after Info and before Warning.
Rank(t) ==
  CASE t = "Info" -> 0
    [] t = "Warning" -> 2
    [] t = "Error" -> 3
    [] OTHER -> 1

KeyLess(a, b) == Rank(a.type) < Rank(b.type) \/ (Rank(a.type) = Rank(b.type) /\ a.id < b.id)
KeyEqual(a, b) == Rank(a.type) = Rank(b.type) /\ a.id = b.id

\* C3: the sorted findings of a file are the input rearranged, in ascending
\* order of severity rank then rule id, with findings equal on both keys in
\* their original order, and the comparator never puts each of two findings
\* before the other.
C3_StableTotalOrder ==
  sorted.done =>
    /\ \A x \in DOMAIN diffs : \A y \in DOMAIN diffs :
         ~(compare(diffs[x], diffs[y]) < 0 /\ compare(diffs[y], diffs[x]) < 0)
    /\ \E p \in Bijections(Len(diffs)) :
         /\ sorted.value = Permutation(diffs, p)
         /\ \A a \in DOMAIN diffs : \A b \in DOMAIN diffs :
              (a < b) =>
                /\ ~KeyLess(diffs[p[b]], diffs[p[a]])
                /\ KeyEqual(diffs[p[a]], diffs[p[b]]) => p[a] < p[b]

\* ==================================================== the dual-run linter
NotRunning == [file |-> 0, phase |-> "none", branch |-> "none"]

\* What the linter may write for one file (stdout + stderr).
LinterChunks ==
  { <<>>,
    <<"x", NL>>,
    <<"{", "W1", "}", NL, "{", "E1", "}", NL>>,
    <<"{", "E1", "}", SP, "{", "W1", "}">>,
    ProgressLine \o <<"{", "I1", "}", NL>> }

\* The linter's exec answers: err with "Process() cancelled due to exception"
\* in stderr, or any other end with the text it wrote.
LinterAnswers ==
  {[cancelled |-> TRUE, text |-> <<>>]} \cup
  {[cancelled |-> FALSE, text |-> c] : c \in LinterChunks}

LintInit ==
  /\ lpc = "start"
  /\ configsToProcess \in FileLists
  /\ li = 1 /\ branch = "pr" /\ checkouts = 0 /\ files = EmptyMap
  /\ logFile \in {"none", "old"}
  /\ running = NotRunning /\ ran = {}

\* createLogFile, and the test for changed config files.
CreateLogFile ==
  /\ lpc = "start"
  /\ logFile' = IF logFile = "none" THEN "empty" ELSE logFile
  /\ lpc' = IF Len(configsToProcess) > 0 THEN "after" ELSE "write"
  /\ UNCHANGED <<configsToProcess, li, branch, checkouts, files, running, ran>>
  /\ UNCHANGED <<runVars, repairVars, sortVars>>

\* updateResult: files[spec][beforeOrAfter] = errors.
updateResult(spec, errs, beforeOrAfter) == (<<spec, beforeOrAfter>> :> errs) @@ files

Finished(file, phase, startBranch, tool) ==
  [file |-> file, phase |-> phase, startBranch |-> startBranch, endBranch |-> branch,
   checkouts |-> checkouts, tool |-> tool]

\* runTools up to the exec of the linter: getLinterResult answers [] at once
\* for a path that does not exist in the working tree, and starts the linter
\* otherwise.
RunToolsStart ==
  /\ lpc \in {"after", "before"} /\ running = NotRunning
  /\ li <= Len(configsToProcess)
  /\ LET swagger == configsToProcess[li]
     IN \E exists \in BOOLEAN :
          IF ~exists
            THEN /\ files' = updateResult(swagger, <<>>, lpc)
                 /\ ran' = ran \cup {Finished(swagger, lpc, branch, FALSE)}
                 /\ li' = li + 1
                 /\ UNCHANGED running
            ELSE /\ running' = [file |-> swagger, phase |-> lpc, branch |-> branch]
                 /\ UNCHANGED <<files, ran, li>>
  /\ UNCHANGED <<lpc, configsToProcess, branch, checkouts, logFile>>
  /\ UNCHANGED <<runVars, repairVars, sortVars>>

\* The linter has ended: "AutoRest failed" is thrown, or the output is
\* repaired and parsed (process.exit(1) when that fails) and recorded.
RunToolsFinish ==
  /\ lpc \in {"after", "before"} /\ running # NotRunning
  /\ \E answer \in LinterAnswers :
       LET r == IF answer.cancelled THEN Thrown ELSE LinterParse(answer.text)
       IN IF r.kind = "throw"
            THEN /\ lpc' = "threw"
                 /\ UNCHANGED <<files, ran, li, running>>
          ELSE IF r.kind = "exit"
            THEN /\ lpc' = "exit1"
                 /\ UNCHANGED <<files, ran, li, running>>
          ELSE /\ files' = updateResult(running.file, r.value, running.phase)
               /\ ran' = ran \cup {Finished(running.file, running.phase, running.branch, TRUE)}
               /\ li' = li + 1
               /\ running' = NotRunning
               /\ UNCHANGED lpc
  /\ UNCHANGED <<configsToProcess, branch, checkouts, logFile>>
  /\ UNCHANGED <<runVars, repairVars, sortVars>>

\* AfterLoopNext with the "before" loop started outside utils.doOnBranch.
AfterLoopSkipsCheckout == "before"

\* Where runScript goes once the "after" loop is over.
AfterLoopNext == "checkout"

AfterLoopEnd ==
  /\ lpc = "after" /\ running = NotRunning /\ li > Len(configsToProcess)
  /\ lpc' = AfterLoopNext /\ li' = 1
  /\ UNCHANGED <<configsToProcess, branch, checkouts, files, logFile, running, ran>>
  /\ UNCHANGED <<runVars, repairVars, sortVars>>

\* utils.doOnBranch, first half: the target branch is checked out, or the
\* checkout fails and doOnBranch, and with it runScript, ends as an exception.
DoOnBranchCheckout ==
  /\ lpc = "checkout"
  /\ \E ok \in BOOLEAN :
       IF ok THEN /\ branch' = "target" /\ checkouts' = checkouts + 1
                  /\ lpc' = "before"
             ELSE /\ lpc' = "refFailed"
                  /\ UNCHANGED <<branch, checkouts>>
  /\ UNCHANGED <<configsToProcess, li, files, logFile, running, ran>>
  /\ UNCHANGED <<runVars, repairVars, sortVars>>

BeforeLoopEnd ==
  /\ lpc = "before" /\ running = NotRunning /\ li > Len(configsToProcess)
  /\ lpc' = "restore"
  /\ UNCHANGED <<configsToProcess, li, branch, checkouts, files, logFile, running, ran>>
  /\ UNCHANGED <<runVars, repairVars, sortVars>>

\* utils.doOnBranch, second half: the callback is over and the branch of the
\* pull request is checked out again.
DoOnBranchRestore ==
  /\ lpc = "restore"
  /\ branch' = "pr"
  /\ lpc' = "write"
  /\ UNCHANGED <<configsToProcess, li, checkouts, files, logFile, running, ran>>
  /\ UNCHANGED <<runVars, repairVars, sortVars>>

\* writeContent(JSON.stringify(finalResult, null, 2))
WriteContent ==
  /\ lpc = "write"
  /\ logFile' = "report"
  /\ lpc' = "done"
  /\ UNCHANGED <<configsToProcess, li, branch, checkouts, files, running, ran>>
  /\ UNCHANGED <<runVars, repairVars, sortVars>>

InitLinter == RunIdle /\ LintInit /\ RepairIdle /\ SortIdle

NextLinter ==
  \/ CreateLogFile
  \/ RunToolsStart
  \/ RunToolsFinish
  \/ AfterLoopEnd
  \/ DoOnBranchCheckout
  \/ BeforeLoopEnd
  \/ DoOnBranchRestore
  \/ WriteContent

SpecLinter == InitLinter /\ [][NextLinter]_vars

\* ============================================= claims on the dual-run linter
\* C8: the target branch is checked out at most once, and exactly once in a
\* completed run over a non-empty list; every "before" run starts and ends
\* with the target branch checked out by that one checkout, every "after" run
\* starts and ends on the pull request's branch before any checkout, and the
\* checkout begins only when every file has had its "after" run.
C8_DualRunConsistency ==
  /\ checkouts <= 1
  /\ (lpc = "done" /\ configsToProcess # <<>>) => checkouts = 1
  /\ running.phase = "before" => (running.branch = "target" /\ branch = "target" /\ checkouts = 1)
  /\ running.phase = "after" => (running.branch = "pr" /\ branch = "pr" /\ checkouts = 0)
  /\ \A r \in ran :
       /\ r.phase = "before" =>
            (r.startBranch = "target" /\ r.endBranch = "target" /\ r.checkouts = 1)
       /\ r.phase = "after" =>
            (r.startBranch = "pr" /\ r.endBranch = "pr" /\ r.checkouts = 0)
  /\ (lpc = "checkout" \/ checkouts > 0) =>
       \A f \in Range(configsToProcess) : \E r \in ran : r.file = f /\ r.phase = "after"
  /\ lpc \in {"write", "done"} => branch = "pr"

C8_Witness ==
  /\ lpc = "done" /\ Len(configsToProcess) >= 2 /\ checkouts = 1
  /\ \A f \in Range(configsToProcess) :
       \E r \in ran : r.file = f /\ r.phase = "before" /\ r.tool

\* C9: when the linter fails for one file (runScript has ended with the linter
\* of that file as its last call), every other file of the run has its
\* "after" and its "before" result recorded.
C9_FailureIsolated ==
  (lpc = "threw" /\ running # NotRunning) =>
    \A f \in Range(configsToProcess) \ {running.file} :
      /\ <<f, "after">> \in DOMAIN files
      /\ <<f, "before">> \in DOMAIN files

\* C10: a run whose checkout of the target branch failed writes no report, and
\* in a completed run a file has an empty "before" only if the linter ran on
\* it in the target branch's tree and found nothing.
C10_NoSilentEmptyBefore ==
  /\ lpc = "refFailed" => logFile # "report"
  /\ lpc = "done" =>
       \A f \in Range(configsToProcess) :
         (<<f, "before">> \in DOMAIN files /\ files[<<f, "before">>] = <<>>) =>
           \E r \in ran : r.file = f /\ r.phase = "before" /\ r.tool

\* C11: a breaking-change run that ends with a non-zero exit status has
\* produced a report whose summary tells what failed (it announces breaking
\* changes and a positive error count) and which names the files involved.
C11_NonZeroHasReport ==
  (pc = "exited" /\ exitCode # 0) =>
    /\ output.produced
    /\ output.summary.breaking /\ output.summary.errors > 0
    /\ output.diffFileNames # <<>>

====
